---------------------------- MODULE Spec2Model ----------------------------
(***************************************************************************)
(* The persona pipeline of BeyondChats: profiler.py (run_profiler and the  *)
(* functions it calls) and db.py (create_vector_database).                 *)
(*                                                                         *)
(* Strings are sequences of code points (Python str), so that strip(),     *)
(* lower() and slicing are computed as Python computes them.  Files are    *)
(* records [exists, ...]: a file that does not exist has exists = FALSE.   *)
(* Python's 0-based indices are kept for the vector store (a cluster holds *)
(* indices in 0..ntotal-1); TLA+ sequences are 1-based.                    *)
(***************************************************************************)
EXTENDS Integers, Sequences, FiniteSets, TLC

VARIABLES
    pc,                  \* position in run_profiler
    index_file,          \* <username>_reddit.faiss: [exists, ntotal]
    meta_file,           \* <username>_reddit_meta.pkl: [exists]
    insights_file,       \* <username>_insights_raw.jsonl: [exists, lines]
    persona_file,        \* <username>_deep_persona.json: [exists, content]
    insights_file0,      \* the insights log as it was before the stage started
    persona_file0,       \* the persona artifact as it was before the stage started
    num_points,          \* run_profiler: index.ntotal
    num_clusters_to_use, \* run_profiler: the clamped K
    labels,              \* find_clusters_kmeans: label of every point
    clusters,            \* run_profiler: the clusters returned
    cluster_i,           \* generate_raw_insights: the cluster being processed
    category_j,          \* generate_raw_insights: the category being processed
    plan,                \* the summarization capability's answers in this run
    insight,             \* generate_raw_insights: the last value of `insight`
    final_persona,       \* run_profiler: [some, value], None is some = FALSE
    kmeans_runs,         \* number of k-means runs
    summarize_calls,     \* number of calls of the summarization capability
    synthesis_calls,     \* number of calls of the structured-synthesis capability
    reply,               \* the last answer of the structured-synthesis capability
    report,              \* what run_profiler last printed about its outcome
    km_in,               \* find_clusters_kmeans called alone: [n, k, labels]
    km_out,              \* find_clusters_kmeans called alone: its result
    db,                  \* create_vector_database: its locals and its files
    rd,                  \* the readers of the raw insights log called alone
    main                 \* main.py: its position, its files, the stages' calls

vars == <<pc, index_file, meta_file, insights_file, persona_file, insights_file0,
          persona_file0, num_points, num_clusters_to_use, labels, clusters,
          cluster_i, category_j, plan, insight, final_persona, kmeans_runs,
          summarize_calls, synthesis_calls, reply, report, km_in, km_out, db,
          rd, main>>

profiler_vars == <<pc, index_file, meta_file, insights_file, persona_file,
          insights_file0, persona_file0, num_points, num_clusters_to_use, labels,
          clusters, cluster_i, category_j, plan, insight, final_persona,
          kmeans_runs, summarize_calls, synthesis_calls, reply, report>>

-----------------------------------------------------------------------------
(* Bounds of the model.                                                    *)

\* The largest vector store: 11 * 39 + 1, so that the cap NUM_CLUSTERS binds.
MaxPoints == 430
\* The call of the summarization capability that answers unlike the others
\* is one of the first MaxDevPos calls of a run.
MaxDevPos == 2
\* find_clusters_kmeans called alone: at most MaxN points, at most MaxK labels.
MaxN == 4
MaxK == 3

(* Program constants.                                                      *)
NUM_CLUSTERS == 10
MAX_ITEMS_PER_CLUSTER_FOR_ANALYSIS == 50
MIN_POINTS_PER_CLUSTER == 39
EVIDENCE_ITEMS == 3
PREVIEW_CHARS == 150

Min(a, b) == IF a < b THEN a ELSE b
Max(a, b) == IF a > b THEN a ELSE b

-----------------------------------------------------------------------------
(* Python str operations, on sequences of code points.                     *)

\* str.lower() on ASCII: A..Z (65..90) become a..z.
Lower(s) == [i \in 1..Len(s) |-> IF s[i] \in 65..90 THEN s[i] + 32 ELSE s[i]]

\* The characters str.strip() removes: tab, newline, carriage return, space.
IsSpace(c) == c \in {9, 10, 13, 32}

\* The first position from i upwards, and the last from i downwards, that
\* holds no whitespace (Len(s) + 1 and 0 when there is none).
RECURSIVE FirstNonSpace(_, _)
FirstNonSpace(s, i) ==
    IF i > Len(s) THEN i
    ELSE IF IsSpace(s[i]) THEN FirstNonSpace(s, i + 1) ELSE i
RECURSIVE LastNonSpace(_, _)
LastNonSpace(s, i) ==
    IF i < 1 THEN i
    ELSE IF IsSpace(s[i]) THEN LastNonSpace(s, i - 1) ELSE i

\* str.strip(): without the leading and the trailing whitespace.
Strip(s) ==
    LET lo == FirstNonSpace(s, 1)
    IN  IF lo > Len(s) THEN <<>> ELSE SubSeq(s, lo, LastNonSpace(s, Len(s)))

\* s[:n]
Take(s, n) == SubSeq(s, 1, Min(n, Len(s)))

-----------------------------------------------------------------------------
(* The vector store's metadata, as db.py writes it: record idx holds the   *)
(* permalink the scraper stored and the item's text.                       *)

REDDIT_BASE_URL == <<104, 116, 116, 112, 115, 58, 47, 47, 114>>  \* "https://r" (reddit.com abridged)

\* The text of item idx: "I" followed by a character of its own.
ItemContent(idx) == <<73, 1000 + idx>>
\* The permalink of item idx as scrape_user_data stores it: the base URL and a path.
ItemUrl(idx) == REDDIT_BASE_URL \o <<47, 1000 + idx>>
Metadata(idx) == [source_url |-> ItemUrl(idx), original_content |-> ItemContent(idx)]

-----------------------------------------------------------------------------
(* find_clusters_kmeans                                                    *)

\* clusters = [[] for _ in range(num_clusters)]
\* for i, label in enumerate(labels): clusters[label].append(i)
\* The loop visits i = 0..n-1 in order and appends i to the list of its
\* label: list c ends as the indices labelled c, in increasing order.
AssignLoop(n, k, lab) ==
    LET points == [p \in 1..n |-> p - 1]
    IN  [c \in 1..k |-> SelectSeq(points, LAMBDA i : lab[i] = c - 1)]

NonEmpty(cluster) == cluster # <<>>

\* [cluster for cluster in clusters if cluster]
DropSingletons(cl) == SelectSeq(cl, LAMBDA cluster : Len(cluster) > 1)
DropEmptyKeepAll(cl) == cl
DropEmpty(cl) == SelectSeq(cl, NonEmpty)

\* The clusters returned for n points labelled lab (0..n-1 -> 0..k-1).
find_clusters_kmeans(n, k, lab) ==
    DropEmpty(AssignLoop(n, k, lab))

\* The labellings k-means is taken to return in run_profiler: m of the k
\* labels are in use, either dealt round-robin from label 0 upwards (the
\* empty centroids are the last ones) or in blocks from label k-1 downwards
\* (the empty centroids are the first ones).
UsedCounts(k) == {m \in 1..k : m <= 2 \/ m = k}
Layouts == {"round_robin", "blocks"}
Labelling(n, k, m, layout) ==
    [i \in 0..(n - 1) |->
        IF layout = "round_robin" THEN i % m ELSE (k - 1) - ((i * m) \div n)]

-----------------------------------------------------------------------------
(* run_profiler, lines 155-168                                             *)

\* max_clusters_allowed and num_clusters_to_use
ClampNoFloorOfOne(n) == Min(NUM_CLUSTERS, n \div MIN_POINTS_PER_CLUSTER)
ClampNoCap(n) == Max(1, n \div MIN_POINTS_PER_CLUSTER)
ClampedK(n) == Min(NUM_CLUSTERS, Max(1, n \div MIN_POINTS_PER_CLUSTER))


-----------------------------------------------------------------------------
(* synthesize_insight and the summarization capability                     *)

\* An answer of the summarization capability: it raises (err), or it
\* returns response.choices[0].message.content.
Raises == [err |-> TRUE, content |-> <<>>]
Says(text) == [err |-> FALSE, content |-> text]

GoodText == <<67, 104, 101, 115, 115>>                        \* "Chess"
GoodAnswers == {Says(GoodText),
                Says(<<32>> \o GoodText \o <<10>>)}           \* " Chess\n"
BadAnswers ==
    {Raises,
     Says(<<>>),                                              \* ""
     Says(<<32, 10>>),                                        \* " \n"
     Says(<<78, 111, 110, 101>>),                             \* "None"
     Says(<<110, 111, 110, 101>>),                            \* "none"
     Says(<<85, 110, 107, 110, 111, 119, 110>>),              \* "Unknown"
     Says(<<32, 85, 78, 75, 78, 79, 87, 78, 10>>),            \* " UNKNOWN\n"
     Says(<<78, 47, 65>>),                                    \* "N/A"
     Says(<<110, 47, 97>>)}                                   \* "n/a"
Answers == GoodAnswers \cup BadAnswers

\* What the capability answers in one run: `base` to every call but call
\* number `at` (counted from 1 over the run; 0: no such call), which gets `dev`.
Plans ==
    [base : Answers, at : {0}, dev : {Raises}]
    \cup [base : {Says(GoodText)}, at : 1..MaxDevPos, dev : BadAnswers]
    \cup [base : {Raises}, at : 1..MaxDevPos, dev : {Says(GoodText)}]
NoPlan == [base |-> Raises, at |-> 0, dev |-> Raises]
Oracle(p, call) == IF call = p.at THEN p.dev ELSE p.base

\* synthesize_insight: the stripped content, or "" when the call raised.
ErrorTextAsInsight(answer) ==
    IF answer.err THEN <<69, 114, 114>> ELSE Strip(answer.content)
synthesize_insight(answer) ==
    IF answer.err THEN <<>> ELSE Strip(answer.content)

\* ["none", "unknown", "n/a"]
Stoplist == {<<110, 111, 110, 101>>,
             <<117, 110, 107, 110, 111, 119, 110>>,
             <<110, 47, 97>>}

\* if insight and insight.lower() not in ["none", "unknown", "n/a"]
AcceptsCaseSensitive(text) == text # <<>> /\ text \notin Stoplist
Accepts(text) == text # <<>> /\ Lower(text) \notin Stoplist

-----------------------------------------------------------------------------
(* generate_raw_insights                                                   *)

\* prompt_templates.keys(), in the dict's order
Categories == <<"interests", "personality", "communication", "values", "goals",
                "pain_points">>

\* len(cluster_metadata): the slice [:50] keeps at most 50 members
AnalysisSize(cluster) == Min(MAX_ITEMS_PER_CLUSTER_FOR_ANALYSIS, Len(cluster))

\* cluster_metadata: the metadata of the first 50 members
ClusterMetadata(cluster) ==
    [k \in 1..AnalysisSize(cluster) |-> Metadata(cluster[k])]

\* cluster_texts: the texts joined by "\n---\n", kept as the list of texts
ClusterTexts(cluster) ==
    [k \in 1..AnalysisSize(cluster) |-> ClusterMetadata(cluster)[k].original_content]

\* f"'{content[:150].strip()}...' (Source: {REDDIT_BASE_URL}{url})"
Citation(item) ==
    [quote  |-> Strip(Take(item.original_content, PREVIEW_CHARS)),
     source |-> REDDIT_BASE_URL \o item.source_url]

\* cluster_evidence: one citation per item of cluster_metadata[:3]
EvidenceOf(cluster_metadata, size) ==
    [k \in 1..Min(EVIDENCE_ITEMS, size) |-> Citation(cluster_metadata[k])]
ClusterEvidence(cluster) ==
    EvidenceOf(ClusterMetadata(cluster), AnalysisSize(cluster))

InsightEntry(cat, text, cluster) ==
    [category |-> cat, insight |-> text, evidence |-> ClusterEvidence(cluster)]

AbsentLog == [exists |-> FALSE, lines |-> <<>>]

\* open(insights_file, "a").write(line): the file is created when absent
OverwriteLine(file, line) == [exists |-> TRUE, lines |-> <<line>>]
AppendLine(file, line) == [exists |-> TRUE, lines |-> Append(file.lines, line)]

\* if os.path.exists(insights_file): os.remove(insights_file)
KeepLog(file) == file
RemoveLog(file) == AbsentLog

-----------------------------------------------------------------------------
(* The UserPersona schema (profiler.py) and pydantic's validation of a     *)
(* JSON text against it.  A JSON value is a tagged record.                 *)

JStr(x)  == [t |-> "str", s |-> x]
JNull    == [t |-> "null"]
JNum     == [t |-> "num"]
JList(l) == [t |-> "list", l |-> l]
JObj(o)  == [t |-> "obj", o |-> o]

DemographicsFields == {"age", "gender", "location", "occupation", "education"}
PsychographicsFields == {"mbti_type", "archetype", "tech_adoption_tier"}
PointListFields == {"interests_and_hobbies", "personality_traits",
                    "communication_style", "values_and_beliefs",
                    "goals_and_motivations", "pain_points_and_frustrations"}
PersonaFields == {"username", "summary_bio", "demographics", "psychographics"}
                    \cup PointListFields

Has(v, f) == f \in DOMAIN v.o

\* str: a JSON string (pydantic 2 does not turn a number into a str)
IsStrValue(v) == v.t = "str"
\* Optional[str]
IsOptStrValue(v) == v.t \in {"str", "null"}
\* List[str]
IsStrList(v) == v.t = "list" /\ \A k \in 1..Len(v.l) : IsStrValue(v.l[k])

\* PersonaPoint: point is required, evidence defaults to []
PointValid(v) ==
    /\ v.t = "obj"
    /\ Has(v, "point") /\ IsStrValue(v.o.point)
    /\ Has(v, "evidence") => IsStrList(v.o.evidence)
PointAsGiven(v) == v
PointObject(v) ==
    JObj([point    |-> v.o.point,
          evidence |-> IF Has(v, "evidence") THEN v.o.evidence ELSE JList(<<>>)])

\* List[PersonaPoint]
PointListValid(v) == v.t = "list" /\ \A k \in 1..Len(v.l) : PointValid(v.l[k])
PointListObject(v) == JList([k \in 1..Len(v.l) |-> PointObject(v.l[k])])

\* Demographics and Psychographics: every field Optional[str], default "Unknown"
OptFieldsValid(v, fields) ==
    /\ v.t = "obj"
    /\ \A f \in fields : Has(v, f) => IsOptStrValue(v.o[f])
OptFieldsObject(v, fields) ==
    JObj([f \in fields |-> IF Has(v, f) THEN v.o[f] ELSE JStr("Unknown")])

\* UserPersona: all ten fields are required; fields the schema does not
\* name are ignored.
PersonaValid(v) ==
    /\ v.t = "obj"
    /\ \A f \in PersonaFields : Has(v, f)
    /\ IsStrValue(v.o.username)
    /\ IsStrValue(v.o.summary_bio)
    /\ OptFieldsValid(v.o.demographics, DemographicsFields)
    /\ OptFieldsValid(v.o.psychographics, PsychographicsFields)
    /\ \A f \in PointListFields : PointListValid(v.o[f])

PersonaObject(v) ==
    JObj([f \in PersonaFields |->
            CASE f = "demographics" -> OptFieldsObject(v.o[f], DemographicsFields)
              [] f = "psychographics" -> OptFieldsObject(v.o[f], PsychographicsFields)
              [] f \in PointListFields -> PointListObject(v.o[f])
              [] OTHER -> v.o[f]])

None == [some |-> FALSE, value |-> JNull]
Some(v) == [some |-> TRUE, value |-> v]

\* An answer of the structured-synthesis capability: it raises, or returns
\* a content that is JSON (json = TRUE, value) or is not.
SynthesisRaises == [err |-> TRUE, json |-> FALSE, value |-> JNull]
NotJson == [err |-> FALSE, json |-> FALSE, value |-> JNull]
Json(v) == [err |-> FALSE, json |-> TRUE, value |-> v]

\* UserPersona.model_validate_json(persona_json) inside try/except:
\* the persona, or None when the call or the validation raised.
ParseOnly(answer) ==
    IF answer.err \/ ~answer.json THEN None ELSE Some(answer.value)
ValidatePersona(answer) ==
    IF answer.err \/ ~answer.json THEN None
    ELSE IF PersonaValid(answer.value) THEN Some(PersonaObject(answer.value))
    ELSE None

-----------------------------------------------------------------------------
(* The answers the structured-synthesis capability may give.               *)

SamplePoint == JObj([point |-> JStr("Plays chess"),
                     evidence |-> JList(<<JStr("'I play chess...'")>>)])
BarePoint == JObj([point |-> JStr("Plays chess")])

SamplePersona(name, points) ==
    JObj([f \in PersonaFields |->
            CASE f = "username" -> JStr(name)
              [] f = "summary_bio" -> JStr("A chess player.")
              [] f = "demographics" -> JObj([g \in DemographicsFields |-> JStr("x")])
              [] f = "psychographics" -> JObj([g \in PsychographicsFields |-> JStr("x")])
              [] OTHER -> JList(points)])

FullPersona == SamplePersona("user", <<SamplePoint>>)
OldPersona == SamplePersona("user", <<>>)

Without(v, f) == JObj([g \in (DOMAIN v.o) \ {f} |-> v.o[g]])
With(v, f, x) == JObj([g \in (DOMAIN v.o) \cup {f} |-> IF g = f THEN x ELSE v.o[g]])

\* Personas the schema accepts: the fields with defaults left out, a null
\* Optional field, a field the schema does not name.
ConformingValues ==
    {FullPersona,
     With(With(SamplePersona("user", <<BarePoint>>), "demographics", JObj(<<>>)),
          "psychographics", JObj(<<>>)),
     With(FullPersona, "demographics", JObj([age |-> JNull])),
     With(FullPersona, "extra", JStr("x"))}

\* JSON the schema rejects: a required field missing, a value of the wrong type.
NonConformingValues ==
    {Without(FullPersona, f) :
        f \in {"username", "summary_bio", "psychographics", "values_and_beliefs"}}
    \cup {JList(<<>>),
          With(FullPersona, "summary_bio", JNum),
          With(FullPersona, "demographics", JObj([age |-> JNum])),
          With(FullPersona, "values_and_beliefs",
               JList(<<JObj([evidence |-> JList(<<>>)])>>)),
          With(FullPersona, "goals_and_motivations",
               JList(<<JObj([point |-> JStr("x"), evidence |-> JList(<<JNum>>)])>>))}

Replies == {SynthesisRaises, NotJson}
            \cup {Json(v) : v \in ConformingValues \cup NonConformingValues}

-----------------------------------------------------------------------------
(* run_profiler                                                            *)

\* The sizes of the vector store on disk: around the multiples of 39 where
\* the clamped K changes, the 120 points of the spec's scenario, and
\* enough points for the cap of 10 to bind.
PointCounts == {0, 1, 38, 39, 77, 78, 117, 120, 390, MaxPoints}

\* A log and a persona left on disk by an earlier run for the same user.
OldLog == [exists |-> TRUE,
           lines |-> <<[category |-> "values", insight |-> <<71, 111>>,
                        evidence |-> ClusterEvidence(<<0>>)]>>]
AbsentPersona == [exists |-> FALSE, content |-> JNull]
OldPersonaFile == [exists |-> TRUE, content |-> OldPersona]

Init ==
    /\ pc = "start"
    /\ index_file \in {[exists |-> FALSE, ntotal |-> 0]}
                      \cup {[exists |-> TRUE, ntotal |-> n] : n \in PointCounts}
    /\ meta_file \in {[exists |-> TRUE], [exists |-> FALSE]}
    /\ \E earlier \in {"none", "failed", "saved"} :
          \* no earlier run; one whose aggregation failed; one that saved a persona
          /\ insights_file = IF earlier = "none" THEN AbsentLog ELSE OldLog
          /\ persona_file = IF earlier = "saved" THEN OldPersonaFile ELSE AbsentPersona
    /\ insights_file0 = insights_file
    /\ persona_file0 = persona_file
    /\ num_points = 0
    /\ num_clusters_to_use = 0
    /\ labels = <<>>
    /\ clusters = <<>>
    /\ cluster_i = 0
    /\ category_j = 0
    /\ plan = NoPlan
    /\ insight = <<>>
    /\ final_persona = None
    /\ kmeans_runs = 0
    /\ summarize_calls = 0
    /\ synthesis_calls = 0
    /\ reply = NotJson
    /\ report = "none"
    /\ km_in = [n |-> 0, k |-> 0, labels |-> <<>>]
    /\ km_out = <<>>
    /\ db = [pc |-> "idle"]
    /\ rd = [pc |-> "idle"]
    /\ main = [pc |-> "idle"]

\* all(os.path.exists(f) for f in [index_file, meta_file])
IndexFileFound(index, meta) == index.exists
DatabaseFilesFound(index, meta) == index.exists /\ meta.exists

\* load_vector_db and lines 155-158: both files must exist
LoadVectorDb ==
    /\ pc = "start"
    /\ IF DatabaseFilesFound(index_file, meta_file)
       THEN /\ num_points' = index_file.ntotal
            /\ pc' = "clamp"
            /\ UNCHANGED report
       ELSE /\ report' = "db_missing"
            /\ pc' = "done"
            /\ UNCHANGED num_points
    /\ UNCHANGED <<index_file, meta_file, insights_file, persona_file,
                   insights_file0, persona_file0, num_clusters_to_use, labels,
                   clusters, cluster_i, category_j, plan, insight, final_persona,
                   kmeans_runs, summarize_calls, synthesis_calls, reply,
                   km_in, km_out, db, rd, main>>

\* if num_points < num_clusters_to_use
NeverInsufficient(n, k) == FALSE
Insufficient(n, k) == n < k

\* lines 160-166: the clamp and the insufficient-data check
Clamp ==
    /\ pc = "clamp"
    /\ num_clusters_to_use' = ClampedK(num_points)
    /\ IF Insufficient(num_points, num_clusters_to_use')
       THEN /\ report' = "insufficient_data"
            /\ pc' = "done"
       ELSE /\ pc' = "kmeans"
            /\ UNCHANGED report
    /\ UNCHANGED <<index_file, meta_file, insights_file, persona_file,
                   insights_file0, persona_file0, num_points, labels,
                   clusters, cluster_i, category_j, plan, insight, final_persona,
                   kmeans_runs, summarize_calls, synthesis_calls, reply,
                   km_in, km_out, db, rd, main>>

\* line 168: find_clusters_kmeans(index, num_clusters_to_use)
RunKMeans ==
    /\ pc = "kmeans"
    /\ \E m \in UsedCounts(num_clusters_to_use), layout \in Layouts :
          /\ labels' = Labelling(num_points, num_clusters_to_use, m, layout)
          /\ clusters' = find_clusters_kmeans(num_points, num_clusters_to_use, labels')
    /\ kmeans_runs' = kmeans_runs + 1
    /\ pc' = "generate"
    /\ UNCHANGED <<index_file, meta_file, insights_file, persona_file,
                   insights_file0, persona_file0, num_points, num_clusters_to_use,
                   cluster_i, category_j, plan, insight, final_persona,
                   summarize_calls, synthesis_calls, reply, report,
                   km_in, km_out, db, rd, main>>

\* generate_raw_insights, lines 86-88: the log of an earlier run is removed.
\* The capability's answers of this run are fixed here.
GenerateStart ==
    /\ pc = "generate"
    /\ insights_file' = IF insights_file.exists THEN RemoveLog(insights_file)
                        ELSE insights_file
    /\ plan' \in Plans
    /\ cluster_i' = 1
    /\ category_j' = 1
    /\ pc' = IF clusters = <<>> THEN "aggregate" ELSE "synthesize"
    /\ UNCHANGED <<index_file, meta_file, persona_file, insights_file0,
                   persona_file0, num_points, num_clusters_to_use, labels,
                   clusters, insight, final_persona, kmeans_runs,
                   summarize_calls, synthesis_calls, reply, report,
                   km_in, km_out, db, rd, main>>

\* generate_raw_insights, lines 112-117: one (cluster, category) call
Synthesize ==
    /\ pc = "synthesize"
    /\ LET answer == Oracle(plan, summarize_calls + 1)
           text == synthesize_insight(answer)
       IN  /\ insight' = text
           /\ insights_file' =
                 IF Accepts(text)
                 THEN AppendLine(insights_file,
                                 InsightEntry(Categories[category_j], text,
                                              clusters[cluster_i]))
                 ELSE insights_file
    /\ summarize_calls' = summarize_calls + 1
    /\ IF category_j < Len(Categories)
       THEN /\ category_j' = category_j + 1
            /\ UNCHANGED <<cluster_i, pc>>
       ELSE /\ category_j' = 1
            /\ cluster_i' = cluster_i + 1
            /\ pc' = IF cluster_i < Len(clusters) THEN "synthesize" ELSE "aggregate"
    /\ UNCHANGED <<index_file, meta_file, persona_file, insights_file0,
                   persona_file0, num_points, num_clusters_to_use, labels,
                   clusters, plan, final_persona, kmeans_runs,
                   synthesis_calls, reply, report, km_in, km_out, db, rd, main>>

\* build_final_persona, called at line 170
BuildFinalPersona ==
    /\ pc = "aggregate"
    /\ IF ~insights_file.exists
       THEN /\ final_persona' = None
            /\ UNCHANGED <<synthesis_calls, reply>>
       ELSE \E answer \in Replies :
               /\ reply' = answer
               /\ synthesis_calls' = synthesis_calls + 1
               /\ final_persona' = ValidatePersona(answer)
    /\ pc' = "save"
    /\ UNCHANGED <<index_file, meta_file, insights_file, persona_file,
                   insights_file0, persona_file0, num_points, num_clusters_to_use,
                   labels, clusters, cluster_i, category_j, plan, insight,
                   kmeans_runs, summarize_calls, report, km_in, km_out, db, rd, main>>

\* if final_persona
SaveAlways(p) == TRUE
ShouldSave(p) == p.some

\* lines 172-178: the persona is written only when there is one
SavePersona ==
    /\ pc = "save"
    /\ IF ShouldSave(final_persona)
       THEN /\ persona_file' = [exists |-> TRUE, content |-> final_persona.value]
            /\ report' = "saved"
       ELSE /\ report' = "persona_failed"
            /\ UNCHANGED persona_file
    /\ pc' = "done"
    /\ UNCHANGED <<index_file, meta_file, insights_file, insights_file0,
                   persona_file0, num_points, num_clusters_to_use, labels,
                   clusters, cluster_i, category_j, plan, insight, final_persona,
                   kmeans_runs, summarize_calls, synthesis_calls, reply,
                   km_in, km_out, db, rd, main>>

Next ==
    \/ LoadVectorDb
    \/ Clamp
    \/ RunKMeans
    \/ GenerateStart
    \/ Synthesize
    \/ BuildFinalPersona
    \/ SavePersona

Spec == Init /\ [][Next]_vars

-----------------------------------------------------------------------------
(* Properties of run_profiler                                              *)

\* The run has gone through generate_raw_insights' first lines.
Generating == pc \in {"synthesize", "aggregate", "save", "done"} /\ kmeans_runs > 0
\* The cluster and the category of call number c of the run (from 1).
ClusterOfCall(c) == ((c - 1) \div Len(Categories)) + 1
CategoryOfCall(c) == Categories[((c - 1) % Len(Categories)) + 1]
\* The log holds a record for call number c: its category, its cluster's evidence.
HasRecordOfCall(c) ==
    \E k \in 1..Len(insights_file.lines) :
        /\ insights_file.lines[k].category = CategoryOfCall(c)
        /\ insights_file.lines[k].evidence = ClusterEvidence(clusters[ClusterOfCall(c)])

Upper(c) == IF c \in 97..122 THEN c - 32 ELSE c
EqualsIgnoringCase(a, b) ==
    Len(a) = Len(b) /\ \A i \in 1..Len(a) : Upper(a[i]) = Upper(b[i])
SentinelWords == {<<78, 79, 78, 69>>,                      \* NONE
                  <<85, 78, 75, 78, 79, 87, 78>>,          \* UNKNOWN
                  <<78, 47, 65>>}                          \* N/A
LiteralUnknown == Says(<<85, 110, 107, 110, 111, 119, 110>>)  \* "Unknown"

\* C1: no record of the raw insights log has an insight text that is empty
\* or equals "none", "unknown" or "n/a" whatever the case of its letters,
\* and a call that was answered "Unknown" has left no record for its
\* (cluster, category) pair.
C1_NoTrivialInsight ==
    /\ \A k \in 1..Len(insights_file.lines) :
          /\ insights_file.lines[k].insight # <<>>
          /\ \A w \in SentinelWords :
                ~EqualsIgnoringCase(insights_file.lines[k].insight, w)
    /\ Generating =>
          \A c \in 1..summarize_calls :
              Oracle(plan, c) = LiteralUnknown => ~HasRecordOfCall(c)

\* C1's case: the second call was answered "Unknown", the others were not,
\* and the run has written the records of the others.
C1_Witness ==
    /\ pc = "done"
    /\ plan.at = 2 /\ plan.dev = LiteralUnknown
    /\ Len(insights_file.lines) = summarize_calls - 1
    /\ Len(clusters) > 1

\* A persona object: exactly the ten fields, each of its type, the
\* sub-objects complete.
IsText(v) == DOMAIN v = {"t", "s"} /\ v.t = "str"
IsTextOrNull(v) == IsText(v) \/ v = JNull
IsTextList(v) ==
    DOMAIN v = {"t", "l"} /\ v.t = "list" /\ \A k \in DOMAIN v.l : IsText(v.l[k])
IsPersonaPoint(v) ==
    /\ DOMAIN v = {"t", "o"} /\ v.t = "obj"
    /\ DOMAIN v.o = {"point", "evidence"}
    /\ IsText(v.o.point)
    /\ IsTextList(v.o.evidence)
IsPointList(v) ==
    DOMAIN v = {"t", "l"} /\ v.t = "list" /\ \A k \in DOMAIN v.l : IsPersonaPoint(v.l[k])
IsOptionalTexts(v, fields) ==
    /\ DOMAIN v = {"t", "o"} /\ v.t = "obj"
    /\ DOMAIN v.o = fields
    /\ \A f \in fields : IsTextOrNull(v.o[f])
IsUserPersona(v) ==
    /\ DOMAIN v = {"t", "o"} /\ v.t = "obj"
    /\ DOMAIN v.o = PersonaFields
    /\ IsText(v.o.username)
    /\ IsText(v.o.summary_bio)
    /\ IsOptionalTexts(v.o.demographics, DemographicsFields)
    /\ IsOptionalTexts(v.o.psychographics, PsychographicsFields)
    /\ \A f \in PointListFields : IsPointList(v.o[f])

\* The aggregation call was made and failed: the capability raised, or
\* its content was not JSON, or JSON the schema rejects.
AggregationCalled == pc \in {"save", "done"} /\ synthesis_calls > 0
AggregationFailed ==
    /\ AggregationCalled
    /\ \/ reply.err
       \/ ~reply.json
       \/ reply.value \in NonConformingValues

\* C2: what build_final_persona returns is None or a complete persona
\* object of the UserPersona schema, and it is None whenever the capability
\* raised or returned JSON that does not conform.
C2_PersonaOrNone ==
    pc \in {"save", "done"} =>
        /\ final_persona.some => IsUserPersona(final_persona.value)
        /\ AggregationFailed => final_persona = None

\* C2's case: the capability returned JSON without summary_bio, and
\* build_final_persona returned None.
C2_Witness ==
    /\ pc = "save"
    /\ synthesis_calls = 1
    /\ reply = Json(Without(FullPersona, "summary_bio"))
    /\ final_persona = None

\* C3: when the aggregation failed, the persona artifact is as it was
\* before the stage started.
C3_FailedAggregationKeepsArtifact ==
    AggregationFailed => persona_file = persona_file0

\* C3's case: a persona of an earlier run is on disk, the aggregation
\* returned JSON without a required field, and the run is over.
C3_Witness ==
    /\ pc = "done"
    /\ persona_file0.exists
    /\ synthesis_calls = 1
    /\ reply = Json(Without(FullPersona, "username"))
    /\ report = "persona_failed"
    /\ persona_file = persona_file0

\* Every call of the summarization capability made so far was answered by
\* an error, an empty text or a sentinel.
AllRejected == \A c \in 1..summarize_calls : Oracle(plan, c) \in BadAnswers

\* C4: build_final_persona has returned None without a call of the
\* synthesis capability whenever the log was absent, and the log is absent
\* after generate_raw_insights when every answer was rejected.
C4_AbsentLogNoSynthesis ==
    /\ pc \in {"save", "done"} /\ ~insights_file.exists =>
          synthesis_calls = 0 /\ final_persona = None
    /\ Generating /\ AllRejected => ~insights_file.exists

\* C4's case: a log of an earlier run was on disk, every answer of this
\* run was rejected, and the run ended without a synthesis call.
C4_Witness ==
    /\ pc = "done"
    /\ insights_file0.exists
    /\ summarize_calls >= 2 * Len(Categories)
    /\ AllRejected
    /\ synthesis_calls = 0
    /\ report = "persona_failed"

\* k-means has run and run_profiler holds its clusters.
Clustered == kmeans_runs > 0

\* C6 as stated: the number of clusters is at most
\* min(10, floor(total_points / 39)).
C6_AtMostMinTargetFloor ==
    Clustered => Len(clusters) <= Min(10, num_points \div 39)

\* C6 as amended: the number of clusters is at most
\* min(10, max(1, floor(total_points / 39))).
C6_AtMostClampedTarget ==
    Clustered =>
        /\ Len(clusters) <= 10
        /\ Len(clusters) <= 1 \/ 39 * Len(clusters) <= num_points

\* C6's case: more than 11 * 39 points, and ten clusters.
C6_Witness ==
    Clustered /\ num_points >= 11 * 39 /\ Len(clusters) = 10

\* The clamp has been computed.
Clamped == pc \notin {"start", "clamp"} /\ index_file.exists /\ meta_file.exists

\* C7: the cluster count handed to k-means is
\* min(10, max(1, floor(total_points / 39))): 1 below 39 points, 10 from
\* 390 points on, and between them the k with 39k <= total_points < 39(k+1);
\* with 120 points it is 3 and at most 3 clusters are returned.
C7_ClampedTarget ==
    Clamped =>
        /\ num_clusters_to_use \in 1..10
        /\ num_points < 39 => num_clusters_to_use = 1
        /\ num_points >= 390 => num_clusters_to_use = 10
        /\ num_points \in 39..389 =>
              /\ 39 * num_clusters_to_use <= num_points
              /\ num_points < 39 * (num_clusters_to_use + 1)
        /\ num_points = 120 =>
              num_clusters_to_use = 3 /\ Len(clusters) <= 3
        /\ Clustered =>
              \A i \in DOMAIN labels : labels[i] \in 0..(num_clusters_to_use - 1)

\* C7's case: 120 points, clamped to 3, and k-means returned 3 clusters.
C7_Witness ==
    /\ Clustered
    /\ num_points = 120
    /\ num_clusters_to_use = 3
    /\ Len(clusters) = 3

\* C8: with fewer points than the clamped K the run has stopped with the
\* insufficient-data report: no k-means run, no cluster, no capability
\* call, the log and the persona artifact as they were.
C8_InsufficientDataStops ==
    Clamped /\ num_points < num_clusters_to_use =>
        /\ pc = "done"
        /\ report = "insufficient_data"
        /\ kmeans_runs = 0
        /\ clusters = <<>>
        /\ summarize_calls = 0
        /\ synthesis_calls = 0
        /\ insights_file = insights_file0
        /\ persona_file = persona_file0

\* C8's case: an empty vector store (clamped K = 1) beside the artifacts
\* of an earlier run.
C8_Witness ==
    /\ pc = "done"
    /\ Clamped
    /\ num_points < num_clusters_to_use
    /\ report = "insufficient_data"
    /\ insights_file0.exists
    /\ persona_file0.exists

IsPrefix(a, b) == Len(a) <= Len(b) /\ \A k \in 1..Len(a) : a[k] = b[k]

\* C10 as stated: the records that were in the log before the run are
\* still there, unchanged, at every point of the run.
C10_EarlierRecordsKept ==
    /\ insights_file0.exists => insights_file.exists
    /\ IsPrefix(insights_file0.lines, insights_file.lines)

\* The records the calls 1..c of this run have produced, in call order.
AcceptedCalls(c) ==
    SelectSeq([q \in 1..c |-> q], LAMBDA q : Oracle(plan, q) \in GoodAnswers)
RecordsOf(accepted) ==
    [r \in 1..Len(accepted) |->
        [category |-> CategoryOfCall(accepted[r]),
         insight  |-> GoodText,
         evidence |-> ClusterEvidence(clusters[ClusterOfCall(accepted[r])])]]
ThisRunsRecords(c) == RecordsOf(AcceptedCalls(c))

\* C10 as amended: the log is append-only within a run.  Once
\* generate_raw_insights has removed the log of earlier runs at its start,
\* the log holds exactly the records this run has written so far, in the
\* order written, none removed or changed; the log exists only if this run
\* wrote a record.
C10_AppendOnlyWithinRun ==
    Generating =>
        /\ insights_file.lines = ThisRunsRecords(summarize_calls)
        /\ insights_file.exists <=> insights_file.lines # <<>>

\* C10's case: a log of an earlier run was on disk and this run has
\* written several records.
C10_Witness ==
    /\ pc = "done"
    /\ insights_file0.exists
    /\ Len(insights_file.lines) >= Len(Categories)
    /\ ~IsPrefix(insights_file0.lines, insights_file.lines)

-----------------------------------------------------------------------------
(* find_clusters_kmeans on every labelling of a small store                *)

\* run_profiler at rest: the variables of the other specifications
ProfilerIdle ==
    /\ pc = "idle"
    /\ index_file = [exists |-> FALSE, ntotal |-> 0]
    /\ meta_file = [exists |-> FALSE]
    /\ insights_file = AbsentLog
    /\ persona_file = AbsentPersona
    /\ insights_file0 = insights_file
    /\ persona_file0 = persona_file
    /\ num_points = 0
    /\ num_clusters_to_use = 0
    /\ labels = <<>>
    /\ clusters = <<>>
    /\ cluster_i = 0
    /\ category_j = 0
    /\ plan = NoPlan
    /\ insight = <<>>
    /\ final_persona = None
    /\ kmeans_runs = 0
    /\ summarize_calls = 0
    /\ synthesis_calls = 0
    /\ reply = NotJson
    /\ report = "none"

NotReturned == [returned |-> FALSE, clusters |-> <<>>]

\* k-means needs at least as many points as clusters; every point gets the
\* label of a centroid, a label in 0..k-1.
InitKMeans ==
    /\ ProfilerIdle
    /\ \E n \in 1..MaxN :
         \E k \in 1..Min(n, MaxK) :
            \E lab \in [0..(n - 1) -> 0..(k - 1)] :
                km_in = [n |-> n, k |-> k, labels |-> lab]
    /\ km_out = NotReturned
    /\ db = [pc |-> "idle"]
    /\ rd = [pc |-> "idle"]
    /\ main = [pc |-> "idle"]

KMeansCall ==
    /\ ~km_out.returned
    /\ km_out' = [returned |-> TRUE,
                  clusters |-> find_clusters_kmeans(km_in.n, km_in.k, km_in.labels)]
    /\ UNCHANGED <<profiler_vars, km_in, db, rd, main>>

NextKMeans == KMeansCall

SpecKMeans == InitKMeans /\ [][NextKMeans]_vars

Members(cluster) == {cluster[p] : p \in 1..Len(cluster)}

\* C5: the clusters returned are non-empty, hold indices of the store
\* only, no index twice, and no two of them share an index.
C5_DisjointNonEmptyValid ==
    km_out.returned =>
        LET cs == km_out.clusters
        IN  /\ \A a \in 1..Len(cs) :
                  /\ cs[a] # <<>>
                  /\ Members(cs[a]) \subseteq 0..(km_in.n - 1)
                  /\ Cardinality(Members(cs[a])) = Len(cs[a])
            /\ \A a, b \in 1..Len(cs) :
                  a # b => Members(cs[a]) \cap Members(cs[b]) = {}

\* C5's case: a labelling that leaves a centroid empty and uses two others.
C5_Witness ==
    /\ km_out.returned
    /\ km_in.k = 3
    /\ Len(km_out.clusters) = 2

RECURSIVE TotalSize(_)
TotalSize(cs) == IF cs = <<>> THEN 0 ELSE Len(Head(cs)) + TotalSize(Tail(cs))

\* C16: the clusters returned cover the store: every index of
\* 0..total_points-1 is in exactly one of them, so their sizes add up to
\* total_points; dropping the empty lists drops no point.
C16_ClustersCoverStore ==
    km_out.returned =>
        /\ \A i \in 0..(km_in.n - 1) :
              Cardinality({a \in 1..Len(km_out.clusters) :
                              i \in Members(km_out.clusters[a])}) = 1
        /\ TotalSize(km_out.clusters) = km_in.n

\* C16's case: four points, a centroid left empty and dropped, and a
\* cluster of a single point among those returned.
C16_Witness ==
    /\ km_out.returned
    /\ km_in.n = MaxN
    /\ Len(km_out.clusters) < km_in.k
    /\ \E a \in 1..Len(km_out.clusters) : Len(km_out.clusters[a]) = 1

-----------------------------------------------------------------------------
(* db.py: create_vector_database                                           *)

\* The batch size of line 34, and the largest input in batches.
BATCH_SIZE == 100
MaxBatches == 2

\* A field of an item of <username>_data.json: absent, null, or a string.
Missing == [k |-> "missing", s |-> <<>>]
Null == [k |-> "null", s |-> <<>>]
Str(x) == [k |-> "str", s |-> x]

\* item.get(field, '') inside an f-string: null is formatted as "None"
GetText(v) ==
    CASE v.k = "missing" -> <<>>
      [] v.k = "null" -> <<78, 111, 110, 101>>
      [] OTHER -> v.s

\* f"{title}\n\n{selftext}{body}".strip()
Content(item) ==
    Strip(GetText(item.title) \o <<10, 10>> \o GetText(item.selftext)
            \o GetText(item.body))

\* `if content and url`: url is item.get("permalink"), None when absent or null
Truthy(v) == v.k = "str" /\ v.s # <<>>
KeepsWhitespaceText(item) ==
    (GetText(item.title) \o GetText(item.selftext) \o GetText(item.body)) # <<>>
        /\ Truthy(item.permalink)
Keeps(item) == Content(item) # <<>> /\ Truthy(item.permalink)

\* The items of the input file.  Item i is a post "P<i>" with a selftext
\* or a comment " c<i>\n", with the permalink "/<i>", unless it is defective:
\* whitespace for text, no text field, no permalink, a null or an empty one.
Post(i) == [title |-> Str(<<80, 1000 + i>>), selftext |-> Str(<<115>>),
            body |-> Missing, permalink |-> Str(<<47, 1000 + i>>)]
Comment(i) == [title |-> Missing, selftext |-> Missing,
               body |-> Str(<<32, 99, 1000 + i, 10>>),
               permalink |-> Str(<<47, 1000 + i>>)]
Defects == {"blank_text", "no_text", "no_link", "null_link", "empty_link"}
Defective(i, defect) ==
    CASE defect = "blank_text" -> [Comment(i) EXCEPT !.body = Str(<<32, 10>>)]
      [] defect = "no_text" -> [Comment(i) EXCEPT !.body = Missing]
      [] defect = "no_link" -> [Comment(i) EXCEPT !.permalink = Missing]
      [] defect = "null_link" -> [Comment(i) EXCEPT !.permalink = Null]
      [] OTHER -> [Comment(i) EXCEPT !.permalink = Str(<<>>)]
Places == {"all", "first", "last", "odd", "hundredth"}
IsAt(i, n, place) ==
    CASE place = "all" -> TRUE
      [] place = "first" -> i = 1
      [] place = "last" -> i = n
      [] place = "odd" -> i % 2 = 1
      [] OTHER -> i = BATCH_SIZE
\* data.get("posts", []) + data.get("comments", [])
Items(posts, comments, defect, place) ==
    [i \in 1..(posts + comments) |->
        IF defect # "none" /\ IsAt(i, posts + comments, place)
        THEN Defective(i, defect)
        ELSE IF i <= posts THEN Post(i) ELSE Comment(i)]
\* Numbers of comments around the batch boundaries.
Counts == {c \in 0..(MaxBatches * BATCH_SIZE + 1) :
              c % BATCH_SIZE \in {0, 1, BATCH_SIZE - 1}}

\* The embedding capability: one vector per text of the request, in order.
Embed(text) == [embedding_of |-> text]
EmbedAll(batch) == [k \in 1..Len(batch) |-> Embed(batch[k])]

\* texts[i:i+100]
BatchOfOneShort(texts, i) ==
    SubSeq(texts, i + 1, Min(i + BATCH_SIZE - 1, Len(texts)))
BatchOf(texts, i) == SubSeq(texts, i + 1, Min(i + BATCH_SIZE, Len(texts)))

NoStore == [exists |-> FALSE, vectors |-> <<>>, records |-> <<>>]
\* The store an earlier run left: one vector and its metadata record.
OldStore == [exists |-> TRUE,
             vectors |-> <<Embed(<<111>>)>>,
             records |-> <<[source_url |-> <<47, 111>>, original_content |-> <<111>>]>>]

InitDb ==
    /\ ProfilerIdle
    /\ km_in = [n |-> 0, k |-> 0, labels |-> <<>>]
    /\ km_out = NotReturned
    /\ rd = [pc |-> "idle"]
    /\ main = [pc |-> "idle"]
    /\ \E posts \in {0, 1}, comments \in Counts,
          defect \in Defects \cup {"none"}, place \in Places,
          store \in {NoStore, OldStore} :
          /\ defect = "none" => place = "all"
          /\ db = [pc |-> "start",
                   items |-> Items(posts, comments, defect, place),
                   texts |-> <<>>, metadata |-> <<>>, embeddings |-> <<>>,
                   i |-> 0, store |-> store, store0 |-> store]

\* lines 24-29: the items the loop keeps, and what it appends for each
KeptItems(items) == SelectSeq(items, Keeps)
TextsOf(kept) == [k \in 1..Len(kept) |-> Content(kept[k])]
MetadataOf(kept) ==
    [k \in 1..Len(kept) |->
        [source_url |-> kept[k].permalink.s, original_content |-> Content(kept[k])]]

\* lines 14-31: no items, or the loop that keeps the items with a text and a url
DbLoad ==
    /\ db.pc = "start"
    /\ IF db.items = <<>>
       THEN db' = [db EXCEPT !.pc = "no_data"]
       ELSE db' = [db EXCEPT
                    !.pc = "embed",
                    !.texts = TextsOf(KeptItems(db.items)),
                    !.metadata = MetadataOf(KeptItems(db.items))]
    /\ UNCHANGED <<profiler_vars, km_in, km_out, rd, main>>

\* lines 34-41: one batch; an error of the capability leaves the function
DbEmbedBatch ==
    /\ db.pc = "embed"
    /\ db.i < Len(db.texts)
    /\ \/ db' = [db EXCEPT
                    !.embeddings = @ \o EmbedAll(BatchOf(db.texts, db.i)),
                    !.i = @ + BATCH_SIZE]
       \/ db' = [db EXCEPT !.pc = "raised"]
    /\ UNCHANGED <<profiler_vars, km_in, km_out, rd, main>>

\* lines 43-51: vectors.shape[1] raises IndexError when there is no
\* embedding; otherwise the index and the metadata are written
DbSave ==
    /\ db.pc = "embed"
    /\ db.i >= Len(db.texts)
    /\ IF db.embeddings = <<>>
       THEN db' = [db EXCEPT !.pc = "raised"]
       ELSE db' = [db EXCEPT
                    !.pc = "saved",
                    !.store = [exists |-> TRUE, vectors |-> db.embeddings,
                               records |-> db.metadata]]
    /\ UNCHANGED <<profiler_vars, km_in, km_out, rd, main>>

NextDb ==
    \/ DbLoad
    \/ DbEmbedBatch
    \/ DbSave

SpecDb == InitDb /\ [][NextDb]_vars

\* The item has a text: a character that is not whitespace.
HasText(item) ==
    \E f \in {"title", "selftext", "body"} :
        item[f].k = "str" /\ \E p \in 1..Len(item[f].s) : ~IsSpace(item[f].s[p])
\* The item's locator is not null (an absent permalink is null).
HasLocator(item) == item.permalink.k = "str"
HasUsableLocator(item) == HasLocator(item) /\ item.permalink.s # <<>>

\* The store holds one vector and one record per item of `want`, in order.
StoreHolds(want) ==
    /\ db.store.exists
    /\ Len(db.store.vectors) = Len(want)
    /\ Len(db.store.records) = Len(want)
    /\ \A k \in 1..Len(want) :
          /\ db.store.vectors[k] = Embed(Content(want[k]))
          /\ db.store.records[k] = [source_url |-> want[k].permalink.s,
                                    original_content |-> Content(want[k])]

StatedItem(item) == HasText(item) /\ HasLocator(item)
UsableItem(item) == HasText(item) /\ HasUsableLocator(item)

\* C9 as stated: the store written holds exactly one vector and one
\* metadata record per item with a text and a non-null locator, in the
\* input's order, record i describing the item of vector i.
C9_OnePerItemWithTextAndLocator ==
    db.pc = "saved" => StoreHolds(SelectSeq(db.items, StatedItem))

\* C9 as amended: the same for the items with a text and a locator that is
\* neither null nor the empty string, whenever the function completes; it
\* writes nothing when the input is empty, when no item qualifies or when
\* the embedding capability raises.
C9_OnePerItemWithTextAndUsableLocator ==
    /\ db.pc = "saved" => StoreHolds(SelectSeq(db.items, UsableItem))
    /\ db.pc # "saved" => db.store = db.store0

\* C9's case: more than two batches of texts were embedded, and an item
\* of the input was skipped.
C9_Witness ==
    /\ db.pc = "saved"
    /\ Len(db.store.vectors) > 2 * BATCH_SIZE
    /\ Len(db.store.vectors) < Len(db.items)
-----------------------------------------------------------------------------
(* The readers of the raw insights log: Output.py load_raw_insights and    *)
(* profiler.py build_final_persona, each called alone on a log on disk.    *)

\* The longest log read.
MaxLogLines == 3

\* A line of the log: the JSON text of record number `record` followed by a
\* newline, as json.dumps writes it; the beginning of such a text (a write
\* that was cut short); or an empty line.
LineKinds == {"record", "truncated", "blank"}
LogLine(kind, k) == [kind |-> kind, record |-> k]

\* json.loads(line): the value, or JSONDecodeError for a text that is not
\* JSON.  Surrounding whitespace (the newline, or none after strip()) is
\* accepted either way.
json_loads(line) ==
    IF line.kind = "record" THEN [ok |-> TRUE, value |-> line.record]
    ELSE [ok |-> FALSE, value |-> 0]

Parses(line) == json_loads(line).ok
\* [json.loads(line) for line in f] when every line parses
LoadAll(lines) == [k \in 1..Len(lines) |-> json_loads(lines[k]).value]

\* The logs on disk: no file, or a file of up to MaxLogLines lines.
Logs ==
    {[exists |-> FALSE, lines |-> <<>>]}
    \cup {[exists |-> TRUE, lines |-> [k \in 1..n |-> LogLine(kinds[k], k)]] :
            kinds \in [1..MaxLogLines -> LineKinds], n \in 0..MaxLogLines}

Readers == {"load_raw_insights", "build_final_persona"}

InitReaders ==
    /\ ProfilerIdle
    /\ km_in = [n |-> 0, k |-> 0, labels |-> <<>>]
    /\ km_out = NotReturned
    /\ db = [pc |-> "idle"]
    /\ main = [pc |-> "idle"]
    /\ \E reader \in Readers, file \in Logs :
          rd = [pc |-> "open", reader |-> reader, file |-> file, i |-> 0,
                insights |-> <<>>, warnings |-> 0, calls |-> 0,
                persona |-> None]

\* load_raw_insights, lines 51-55: no file, no insights
LoadOpen ==
    /\ rd.pc = "open" /\ rd.reader = "load_raw_insights"
    /\ rd' = [rd EXCEPT !.pc = IF rd.file.exists THEN "loop" ELSE "returned"]
    /\ UNCHANGED <<profiler_vars, km_in, km_out, db, main>>

\* load_raw_insights, lines 56-60: one line; JSONDecodeError is caught
LoadLine ==
    /\ rd.pc = "loop"
    /\ rd.i < Len(rd.file.lines)
    /\ LET parsed == json_loads(rd.file.lines[rd.i + 1])
       IN  rd' = [rd EXCEPT
                    !.i = @ + 1,
                    !.insights = IF parsed.ok THEN Append(@, parsed.value) ELSE @,
                    !.warnings = IF parsed.ok THEN @ ELSE @ + 1]
    /\ UNCHANGED <<profiler_vars, km_in, km_out, db, main>>

\* load_raw_insights, line 61
LoadReturn ==
    /\ rd.pc = "loop"
    /\ rd.i >= Len(rd.file.lines)
    /\ rd' = [rd EXCEPT !.pc = "returned"]
    /\ UNCHANGED <<profiler_vars, km_in, km_out, db, main>>

\* build_final_persona, lines 120-126: no file, None; otherwise the list
\* comprehension, outside any try: the first JSONDecodeError leaves the
\* function
BuildRead ==
    /\ rd.pc = "open" /\ rd.reader = "build_final_persona"
    /\ rd' = IF ~rd.file.exists THEN [rd EXCEPT !.pc = "returned"]
             ELSE IF \A k \in 1..Len(rd.file.lines) : Parses(rd.file.lines[k])
             THEN [rd EXCEPT !.pc = "call", !.i = Len(rd.file.lines),
                             !.insights = LoadAll(rd.file.lines)]
             ELSE [rd EXCEPT !.pc = "raised"]
    /\ UNCHANGED <<profiler_vars, km_in, km_out, db, main>>

\* build_final_persona, lines 137-147: the synthesis call and the validation
BuildCall ==
    /\ rd.pc = "call"
    /\ \E answer \in {SynthesisRaises, Json(FullPersona)} :
          rd' = [rd EXCEPT !.pc = "returned", !.calls = @ + 1,
                           !.persona = ValidatePersona(answer)]
    /\ UNCHANGED <<profiler_vars, km_in, km_out, db, main>>

NextReaders ==
    \/ LoadOpen
    \/ LoadLine
    \/ LoadReturn
    \/ BuildRead
    \/ BuildCall

SpecReaders == InitReaders /\ [][NextReaders]_vars

\* The records of the lines that parse, in the log's order.
WellFormed(lines) == LoadAll(SelectSeq(lines, Parses))
HasMalformedLine(file) ==
    file.exists /\ \E k \in 1..Len(file.lines) : ~Parses(file.lines[k])

\* C11: a reader that meets a line that fails to parse skips it and goes
\* on: load_raw_insights returns the records of the well-formed lines, and
\* build_final_persona does not stop at the line but hands the well-formed
\* records to the aggregation call.
C11_ReadersSkipMalformedLines ==
    /\ rd.pc = "returned" /\ rd.reader = "load_raw_insights" =>
          rd.insights = WellFormed(rd.file.lines)
    /\ rd.pc # "raised"
    /\ rd.pc \in {"call", "returned"} /\ rd.reader = "build_final_persona"
            /\ rd.file.exists =>
          rd.insights = WellFormed(rd.file.lines)

\* C11's case for load_raw_insights: a log with a well-formed line after a
\* malformed one was read to its end, with one warning per malformed line.
C11_LoadSkips ==
    /\ rd.pc = "returned" /\ rd.reader = "load_raw_insights"
    /\ HasMalformedLine(rd.file)
    /\ Parses(rd.file.lines[Len(rd.file.lines)])
    /\ rd.insights = WellFormed(rd.file.lines)
    /\ rd.warnings = Len(rd.file.lines) - Len(rd.insights)
-----------------------------------------------------------------------------
(* More properties of run_profiler                                         *)

\* generate_raw_insights has returned.
Generated == pc \in {"aggregate", "save", "done"} /\ kmeans_runs > 0

\* The log holds a record for the pair of call number c: its category, and
\* the citation of its cluster's first member (clusters share no member).
FirstCitation(cluster) == Citation(Metadata(cluster[1]))
IsRecordOfPair(line, c) ==
    /\ line.category = CategoryOfCall(c)
    /\ line.evidence[1] = FirstCitation(clusters[ClusterOfCall(c)])
HasRecordOfPair(c) ==
    \E k \in 1..Len(insights_file.lines) : IsRecordOfPair(insights_file.lines[k], c)

\* C12: an error of the summarization capability on one (cluster, category)
\* call does not stop generate_raw_insights.  The failing pair has no record;
\* every call moves the loop to the next pair, so that the stage returns
\* after one call per pair; and every later call that was answered with a
\* text has its record, the last line of the log at that moment.
C12_CallErrorIsNotFatal ==
    /\ Generating =>
          /\ \A c \in 1..summarize_calls :
                Oracle(plan, c) = Raises => ~HasRecordOfPair(c)
          /\ summarize_calls > 0 /\ Oracle(plan, summarize_calls) \in GoodAnswers =>
                IsRecordOfPair(insights_file.lines[Len(insights_file.lines)],
                               summarize_calls)
    /\ pc = "synthesize" =>
          /\ cluster_i \in 1..Len(clusters)
          /\ category_j \in 1..Len(Categories)
          /\ summarize_calls = (cluster_i - 1) * Len(Categories) + category_j - 1
    /\ Generated => summarize_calls = Len(clusters) * Len(Categories)

\* C12's case: the second call of the run raised, the run went through
\* every pair of its several clusters and recorded all the others.
C12_Witness ==
    /\ pc = "done"
    /\ plan.at = 2 /\ plan.dev = Raises /\ plan.base = Says(GoodText)
    /\ Len(clusters) > 1
    /\ summarize_calls = Len(clusters) * Len(Categories)
    /\ Len(insights_file.lines) = summarize_calls - 1
    /\ ~HasRecordOfPair(2)
    /\ HasRecordOfPair(summarize_calls)

\* C13: when the vector index or its metadata file is missing, run_profiler
\* has stopped with the message that the database was not found: k-means
\* was not run, no capability was called, and the raw insights log and the
\* persona artifact are as they were before the run.
C13_MissingInputAborts ==
    pc # "start" /\ ~(index_file.exists /\ meta_file.exists) =>
        /\ pc = "done"
        /\ report = "db_missing"
        /\ kmeans_runs = 0
        /\ clusters = <<>>
        /\ summarize_calls = 0
        /\ synthesis_calls = 0
        /\ insights_file = insights_file0
        /\ persona_file = persona_file0

\* C13's case: the index is on disk without its metadata file, beside the
\* log and the persona of an earlier run, and the run is over.
C13_Witness ==
    /\ pc = "done"
    /\ index_file.exists /\ index_file.ntotal > 0
    /\ ~meta_file.exists
    /\ report = "db_missing"
    /\ insights_file0.exists
    /\ persona_file0.exists

StartsWith(text, prefix) ==
    Len(text) >= Len(prefix) /\ SubSeq(text, 1, Len(prefix)) = prefix
\* The public URL a stored locator stands for: the locator itself when it
\* is absolute, the site's base URL followed by it when it is a path.
ResolvedUrl(locator) ==
    IF StartsWith(locator, REDDIT_BASE_URL) THEN locator
    ELSE REDDIT_BASE_URL \o locator
\* The evidence the claim describes for a cluster: one citation for each of
\* its first min(3, |cluster|) members, in order.
StatedEvidence(cluster) ==
    [j \in 1..Min(3, Len(cluster)) |->
        [quote  |-> Strip(Take(Metadata(cluster[j]).original_content, 150)),
         source |-> ResolvedUrl(Metadata(cluster[j]).source_url)]]

\* C15: the analysis input of a cluster is the texts of its first
\* min(50, |cluster|) members in order, and every record written for the
\* cluster carries one citation for each of its first min(3, |cluster|)
\* members, in order: the member's text cut to 150 characters, and the
\* public URL its stored locator resolves to.
C15_EvidenceCitesResolvedUrl ==
    Generating =>
        /\ \A a \in 1..Len(clusters) :
              /\ Len(ClusterTexts(clusters[a])) = Min(50, Len(clusters[a]))
              /\ \A j \in 1..Len(ClusterTexts(clusters[a])) :
                    ClusterTexts(clusters[a])[j] = ItemContent(clusters[a][j])
        /\ \A k \in 1..Len(insights_file.lines) :
              \E a \in 1..Len(clusters) :
                  insights_file.lines[k].evidence = StatedEvidence(clusters[a])

\* C15's case: a record was written for a cluster of more than 50 members;
\* it has three citations, and the source of each is the base URL followed
\* by the stored locator, which already begins with the base URL.
C15_Witness ==
    /\ Generating
    /\ Len(insights_file.lines) > 0
    /\ Len(clusters[1]) > 50
    /\ Len(insights_file.lines[1].evidence) = 3
    /\ \A j \in 1..3 :
          LET e == insights_file.lines[1].evidence[j]
          IN  /\ e.quote = ItemContent(clusters[1][j])
              /\ e.source = REDDIT_BASE_URL \o ItemUrl(clusters[1][j])
              /\ StartsWith(ItemUrl(clusters[1][j]), REDDIT_BASE_URL)

-----------------------------------------------------------------------------
(* report.py: the Renderer's schema and run_report                         *)

\* report.UserPersona(**persona_data): every field of the four classes is
\* declared without a default, so each must be present; an Optional[str]
\* may be null; fields the schema does not name are ignored.
ReportPointValid(v) ==
    /\ v.t = "obj"
    /\ Has(v, "point") /\ IsStrValue(v.o.point)
    /\ Has(v, "evidence") /\ IsStrList(v.o.evidence)
ReportPointListValid(v) ==
    v.t = "list" /\ \A k \in 1..Len(v.l) : ReportPointValid(v.l[k])
ReportFieldsValid(v, fields) ==
    /\ v.t = "obj"
    /\ \A f \in fields : Has(v, f) /\ IsOptStrValue(v.o[f])
ReportPersonaValid(v) ==
    /\ v.t = "obj"
    /\ \A f \in PersonaFields : Has(v, f)
    /\ IsStrValue(v.o.username)
    /\ IsStrValue(v.o.summary_bio)
    /\ ReportFieldsValid(v.o.demographics, DemographicsFields)
    /\ ReportFieldsValid(v.o.psychographics, PsychographicsFields)
    /\ \A f \in PointListFields : ReportPointListValid(v.o[f])

\* if not os.path.exists(json_filename)
PersonaJsonAssumed(file) == TRUE
PersonaJsonFound(file) == file.exists

AbsentPdf == [exists |-> FALSE, of |-> JNull]

\* run_report: what it prints or raises, and the PDF it leaves.  The
\* drawing code may raise on the persona's texts (render_raised) before
\* canvas.save() writes the file.
run_report(file, pdf) ==
    IF ~PersonaJsonFound(file)
    THEN {[outcome |-> "persona_not_found", pdf |-> pdf]}
    ELSE IF ~file.exists
    THEN {[outcome |-> "open_raised", pdf |-> pdf]}
    ELSE IF ~ReportPersonaValid(file.content)
    THEN {[outcome |-> "validation_error", pdf |-> pdf]}
    ELSE {[outcome |-> "rendered", pdf |-> [exists |-> TRUE, of |-> file.content]],
          [outcome |-> "render_raised", pdf |-> pdf]}

-----------------------------------------------------------------------------
(* main.py: the four stages called one after the other                     *)

\* lines 13, 16, 19, 22
Stages == <<"run_scraper", "run_vector_db", "run_profiler", "run_report">>
StageNumber(stage) == CHOOSE k \in 1..Len(Stages) : Stages[k] = stage

\* The statement after the call of `stage`.
ProfilerBeforeVectorDb(stage) ==
    CASE stage = "run_scraper" -> "run_profiler"
      [] stage = "run_profiler" -> "run_vector_db"
      [] stage = "run_vector_db" -> "run_report"
      [] OTHER -> "done"
NextStage(stage) ==
    IF StageNumber(stage) < Len(Stages) THEN Stages[StageNumber(stage) + 1]
    ELSE "done"

Event(stage, what) == [stage |-> stage, what |-> what]
Last(trace) == trace[Len(trace)]
InCall(stage) ==
    /\ main.pc = stage
    /\ main.trace # <<>>
    /\ Last(main.trace) = Event(stage, "call")

\* What the scraper may collect: no item, one, two, or enough for two
\* clusters; and a user all of whose comments are blank.
ScrapedPosts == {0, 1}
ScrapedComments == {0, 1, 2 * MIN_POINTS_PER_CLUSTER}
ScrapedDefects == {"none", "blank_text"}

\* A persona file of an earlier run that the Renderer's schema rejects: a
\* point without evidence.
BarePersonaFile ==
    [exists |-> TRUE, content |-> SamplePersona("user", <<BarePoint>>)]

\* The disk before the run: nothing of this user, or the artifacts of an
\* earlier run.
InitMain ==
    /\ km_in = [n |-> 0, k |-> 0, labels |-> <<>>]
    /\ km_out = NotReturned
    /\ rd = [pc |-> "idle"]
    /\ \E earlier \in {"none", "saved", "bare"}, url \in {"", "u/user"} :
          /\ main = [pc |-> "input", url |-> url, clean |-> earlier = "none",
                     data_file |-> [exists |-> FALSE, items |-> <<>>],
                     pdf_file |-> AbsentPdf, trace |-> <<>>, outcome |-> "none"]
          /\ db = [pc |-> "idle", items |-> <<>>, texts |-> <<>>,
                   metadata |-> <<>>, embeddings |-> <<>>, i |-> 0,
                   store |-> IF earlier = "none" THEN NoStore ELSE OldStore,
                   store0 |-> IF earlier = "none" THEN NoStore ELSE OldStore]
          /\ index_file = [exists |-> earlier # "none",
                           ntotal |-> IF earlier = "none" THEN 0 ELSE 1]
          /\ meta_file = [exists |-> earlier # "none"]
          /\ insights_file = IF earlier = "none" THEN AbsentLog ELSE OldLog
          /\ persona_file = CASE earlier = "none" -> AbsentPersona
                              [] earlier = "saved" -> OldPersonaFile
                              [] OTHER -> BarePersonaFile
    /\ insights_file0 = insights_file
    /\ persona_file0 = persona_file
    /\ pc = "idle"
    /\ num_points = 0
    /\ num_clusters_to_use = 0
    /\ labels = <<>>
    /\ clusters = <<>>
    /\ cluster_i = 0
    /\ category_j = 0
    /\ plan = NoPlan
    /\ insight = <<>>
    /\ final_persona = None
    /\ kmeans_runs = 0
    /\ summarize_calls = 0
    /\ synthesis_calls = 0
    /\ reply = NotJson
    /\ report = "none"

\* lines 7-10
MainInput ==
    /\ main.pc = "input"
    /\ main' = [main EXCEPT !.pc = IF main.url = "" THEN "exited" ELSE Stages[1]]
    /\ UNCHANGED <<profiler_vars, km_in, km_out, db, rd>>

\* line 13, run_scraper: the collection raises, or the data file is written
MainRunScraper ==
    /\ main.pc = "run_scraper"
    /\ \/ main' = [main EXCEPT
                    !.pc = "crashed",
                    !.trace = @ \o <<Event("run_scraper", "call"),
                                     Event("run_scraper", "raise")>>]
       \/ \E posts \in ScrapedPosts, comments \in ScrapedComments,
             defect \in ScrapedDefects :
             main' = [main EXCEPT
                        !.pc = NextStage("run_scraper"),
                        !.data_file = [exists |-> TRUE,
                                       items |-> Items(posts, comments, defect, "all")],
                        !.trace = @ \o <<Event("run_scraper", "call"),
                                         Event("run_scraper", "return")>>]
    /\ UNCHANGED <<profiler_vars, km_in, km_out, db, rd>>

\* line 16, run_vector_db called: it opens and loads <username>_data.json
MainCallVectorDb ==
    /\ main.pc = "run_vector_db"
    /\ db.pc = "idle"
    /\ db' = IF main.data_file.exists
             THEN [db EXCEPT !.pc = "start", !.items = main.data_file.items]
             ELSE [db EXCEPT !.pc = "raised"]
    /\ main' = [main EXCEPT !.trace = Append(@, Event("run_vector_db", "call"))]
    /\ UNCHANGED <<profiler_vars, km_in, km_out, rd>>

\* line 16, run_vector_db returns, or its exception ends main.py
MainVectorDbReturns ==
    /\ InCall("run_vector_db")
    /\ db.pc \in {"no_data", "saved", "raised"}
    /\ main' = IF db.pc = "raised"
               THEN [main EXCEPT
                        !.pc = "crashed",
                        !.trace = Append(@, Event("run_vector_db", "raise"))]
               ELSE [main EXCEPT
                        !.pc = NextStage("run_vector_db"),
                        !.trace = Append(@, Event("run_vector_db", "return"))]
    /\ UNCHANGED <<profiler_vars, km_in, km_out, db, rd>>

\* line 19, run_profiler called: it finds the store as db.py left it
MainCallProfiler ==
    /\ main.pc = "run_profiler"
    /\ pc = "idle"
    /\ pc' = "start"
    /\ index_file' = [exists |-> db.store.exists, ntotal |-> Len(db.store.vectors)]
    /\ meta_file' = [exists |-> db.store.exists]
    /\ main' = [main EXCEPT !.trace = Append(@, Event("run_profiler", "call"))]
    /\ UNCHANGED <<insights_file, persona_file, insights_file0, persona_file0,
                   num_points, num_clusters_to_use, labels, clusters, cluster_i,
                   category_j, plan, insight, final_persona, kmeans_runs,
                   summarize_calls, synthesis_calls, reply, report,
                   km_in, km_out, db, rd>>

\* line 19, run_profiler returns
MainProfilerReturns ==
    /\ InCall("run_profiler")
    /\ pc = "done"
    /\ main' = [main EXCEPT
                    !.pc = NextStage("run_profiler"),
                    !.trace = Append(@, Event("run_profiler", "return"))]
    /\ UNCHANGED <<profiler_vars, km_in, km_out, db, rd>>

\* line 22, run_report; an exception ends main.py before line 24
MainRunReport ==
    /\ main.pc = "run_report"
    /\ \E r \in run_report(persona_file, main.pdf_file) :
          LET raised == r.outcome \in {"open_raised", "validation_error",
                                       "render_raised"}
          IN  main' = [main EXCEPT
                        !.pc = IF raised THEN "crashed" ELSE NextStage("run_report"),
                        !.outcome = r.outcome,
                        !.pdf_file = r.pdf,
                        !.trace = @ \o <<Event("run_report", "call"),
                                         Event("run_report",
                                               IF raised THEN "raise" ELSE "return")>>]
    /\ UNCHANGED <<profiler_vars, km_in, km_out, db, rd>>

NextMain ==
    \/ MainInput
    \/ MainRunScraper
    \/ MainCallVectorDb
    \/ DbLoad
    \/ DbEmbedBatch
    \/ DbSave
    \/ MainVectorDbReturns
    \/ MainCallProfiler
    \/ LoadVectorDb
    \/ Clamp
    \/ RunKMeans
    \/ GenerateStart
    \/ Synthesize
    \/ BuildFinalPersona
    \/ SavePersona
    \/ MainProfilerReturns
    \/ MainRunReport

SpecMain == InitMain /\ [][NextMain]_vars

-----------------------------------------------------------------------------
(* Properties of the pipeline                                              *)

ProfilerRunning ==
    pc \in {"start", "clamp", "kmeans", "generate", "synthesize", "aggregate", "save"}

\* The calls made so far are those of the stages in the order scraper,
\* vector database, profiler, report: call number k is the call of stage k,
\* it is made after call k-1 has returned, and an exception ends the run.
CallsInOrder ==
    \A i \in 1..Len(main.trace) :
        /\ main.trace[i].stage = Stages[(i + 1) \div 2]
        /\ main.trace[i].what \in
              (IF i % 2 = 1 THEN {"call"} ELSE {"return", "raise"})
        /\ main.trace[i].what = "raise" => i = Len(main.trace)

\* A stage works only between its call and its return, and inside
\* run_profiler clustering has returned before the first summarization
\* call, and every summarization call before the aggregation call.
StagesDoNotOverlap ==
    /\ db.pc = "idle" <=> Len(main.trace) < 3
    /\ db.pc \in {"start", "embed"} => InCall("run_vector_db")
    /\ pc = "idle" <=> Len(main.trace) < 5
    /\ ProfilerRunning => InCall("run_profiler")
    /\ pc \in {"start", "clamp", "kmeans"} =>
          kmeans_runs = 0 /\ summarize_calls = 0 /\ synthesis_calls = 0
    /\ pc \in {"generate", "synthesize"} => kmeans_runs = 1 /\ synthesis_calls = 0
    /\ summarize_calls > 0 => kmeans_runs = 1
    /\ synthesis_calls > 0 =>
          /\ pc \in {"save", "done"}
          /\ summarize_calls = Len(clusters) * Len(Categories)
    /\ main.outcome # "none" => ~ProfilerRunning /\ db.pc \notin {"start", "embed"}
    \* the store run_profiler has loaded is the one db.py left
    /\ pc # "idle" =>
          /\ index_file = [exists |-> db.store.exists, ntotal |-> Len(db.store.vectors)]
          /\ meta_file = [exists |-> db.store.exists]
    \* the items db.py has loaded are those of the data file
    /\ db.pc \notin {"idle", "raised"} => db.items = main.data_file.items

\* Each artifact is written by its own stage only: the data file by the
\* scraper, the vector store by db.py (which reads the data file), the log
\* by generate_raw_insights and the persona by run_profiler's last lines
\* (which read the store and the log), the PDF by run_report (which reads
\* the persona).
WrittenByItsStage ==
    /\ main'.data_file # main.data_file => main.pc = "run_scraper"
    /\ db'.store # db.store => InCall("run_vector_db")
    /\ insights_file' # insights_file =>
          InCall("run_profiler") /\ pc \in {"generate", "synthesize"}
    /\ persona_file' # persona_file => InCall("run_profiler") /\ pc = "save"
    /\ main'.pdf_file # main.pdf_file => main.pc = "run_report"

\* C14: a run of main.py goes through the stages in the fixed order scrape,
\* embedding and indexing, clustering, insight synthesis, aggregation,
\* rendering; no stage starts before the previous one has returned, and
\* every artifact a stage reads was written by an earlier stage and is not
\* written again by a later one.
C14_StagesInFixedOrder ==
    [](CallsInOrder /\ StagesDoNotOverlap) /\ [][WrittenByItsStage]_vars

\* C14's case: a run in which all four stages were called and returned,
\* the store was written, two clusters were analysed and a PDF rendered.
C14_Witness ==
    /\ main.pc = "done"
    /\ Len(main.trace) = 2 * Len(Stages)
    /\ db.pc = "saved"
    /\ Len(clusters) = 2
    /\ synthesis_calls = 1
    /\ report = "saved"
    /\ main.outcome = "rendered"
    /\ main.pdf_file.exists

\* An earlier stage has failed in one of the ways that return to main.py:
\* no data to embed, no vector store, insufficient data, no persona.
StageFailed ==
    \/ db.pc = "no_data"
    \/ report \in {"db_missing", "insufficient_data", "persona_failed"}

\* C17: in a run that started with none of the user's artifacts on disk, a
\* PDF exists only if build_final_persona returned a validated persona in
\* this run (and it is the PDF of that persona); and when an earlier stage
\* failed, no exception ends main.py, the later stages are all called, and
\* run_report finds no persona file and renders nothing.
C17_PdfOnlyFromThisRunsPersona ==
    main.clean =>
        /\ main.pdf_file.exists =>
              /\ synthesis_calls = 1
              /\ final_persona.some
              /\ report = "saved"
              /\ main.pdf_file.of = final_persona.value
        /\ StageFailed => main.pc # "crashed" /\ ~main.pdf_file.exists
        /\ StageFailed /\ main.pc = "done" =>
              /\ Len(main.trace) = 2 * Len(Stages)
              /\ \A i \in 1..Len(main.trace) : main.trace[i].what # "raise"
              /\ main.outcome = "persona_not_found"

\* C17's case: from an empty disk, the store was written and clustered,
\* the aggregation failed, and run_report was still called and found no
\* persona file.
C17_Witness ==
    /\ main.clean
    /\ main.pc = "done"
    /\ db.pc = "saved"
    /\ synthesis_calls = 1
    /\ report = "persona_failed"
    /\ Len(main.trace) = 2 * Len(Stages)
    /\ main.outcome = "persona_not_found"
    /\ ~main.pdf_file.exists

\* C18: a persona file written by run_profiler in this run is accepted by
\* the schema of report.py: run_report does not stop with a validation
\* error, whatever fields the capability left out of a persona that
\* profiler.UserPersona accepts.
C18_WrittenPersonaLoadsInReport ==
    /\ report = "saved" => ReportPersonaValid(persona_file.content)
    /\ report = "saved" => main.outcome # "validation_error"

\* C18's case: the capability left out the evidence of a point and every
\* demographic and psychographic field; the persona was saved with the
\* defaults and run_report rendered it.
C18_Witness ==
    /\ report = "saved"
    /\ reply.json
    /\ ~ReportPersonaValid(reply.value)
    /\ PersonaValid(reply.value)
    /\ main.outcome = "rendered"
    /\ main.pdf_file.of = persona_file.content
=============================================================================
